---------------------------- MODULE Spec2Model ----------------------------
(***************************************************************************)
(* A model of the Orbion voice-tutoring client: the presentation state of  *)
(* App (checkpoints, transcript turns, orb state) and the playback         *)
(* scheduler, message dispatcher, capture path and connection lifecycle of *)
(* GeminiLiveService.                                                      *)
(*                                                                         *)
(* Time is the output AudioContext's currentTime in whole units.  A chunk  *)
(* is named by its arrival number.  The variables marked history record    *)
(* what the program did; the program reads none of them, except that       *)
(* startLog also stands for the start time and buffer each source holds.   *)
(***************************************************************************)
EXTENDS Integers, Sequences, FiniteSets, TLC

VARIABLES
    services,        \* the GeminiLiveService objects created so far, in order of
                     \* creation; the last one is geminiRef.current.  Each is
                     \*   session       the live session behind sessionPromise: "none",
                     \*                 "resumingInput", "resumingOutput" and "acquiring"
                     \*                 (null; connect() is over, waits for the resume()
                     \*                 of a context, waits for the microphone),
                     \*                 "connecting" (pending),
                     \*                 "opened" (onopen ran, still pending), "open"
                     \*                 (resolved), "failed" (rejected)
                     \*   inputCtx      inputAudioContext: "null", "suspended", "running",
                     \*                 "closed"
                     \*   outputCtx     outputAudioContext: likewise
                     \*   stream        "null", "live", "stopped"
                     \*   processor     "null", "active", "cleared"
                     \*   thenQueue     callbacks registered on the pending sessionPromise
                     \*   closureOrbState  the orbState that the callbacks created by
                     \*                 handleStart see: the one of the render in which
                     \*                 Start was clicked
                     \*   nextStartTime GeminiLiveService.nextStartTime
                     \*   clock         outputAudioContext.currentTime
                     \*   closingInput  disconnect() calls suspended at
                     \*                 `await inputAudioContext.close()`
                     \*   closingOutput disconnect() calls suspended at
                     \*                 `await outputAudioContext.close()`
    apiKey,          \* whether process.env.API_KEY is set
    hasStarted,      \* App: useState hasStarted
    error,           \* App: useState error ("null" or the message)
    orbState,        \* App: useState orbState
    orbVolume,       \* App: useState orbVolume (0 quiet, 1 above the 0.1 threshold)
    timers,          \* App: the setTimeout(..., 2500) callbacks not yet fired
    checkpoints,     \* App: useState checkpoints, a sequence of [id, status]
    messages,        \* App: useState messages, the transcript turns
    sources,         \* the chunks whose source is tracked in the `sources` of its service
    pending,         \* handleMessage invocations suspended at `await decodeAudioData`:
                     \* [n, msg, svc], svc the service whose handler it is
    sent,            \* the tool responses handed to session.sendToolResponse, in order
    realtimeSent,    \* the blocks handed to session.sendRealtimeInput, in order
    nChunks,         \* history: audio chunks received so far
    received,        \* history: the function calls received so far, in order
    heard,           \* history: the transcription events received so far, in order
    nBlocks,         \* history: audio blocks captured so far
    nVolumes,        \* history: onVolumeUpdate calls so far
    disconnectLog,   \* history: how each finished disconnect() ended
    signals,         \* history: the arguments of onStateChange, in order
    startLog,        \* history: every source.start(t): [n, t, dur, now, svc]
    arrivalLog,      \* history: clock at the arrival of chunk n
    endMark,         \* history: Len(signals) just before the latest 'ended' callback
    chunksAtEnd,     \* history: nChunks at the latest 'ended' callback
    completeLog,     \* history: every complete(id): [id, before, after, errBefore, errAfter]
    transcriptLog    \* history: every onTranscriptUpdate: [role, text, isFinal, before, after]

\* What the capture path writes outside its service.
captureVars == <<realtimeSent, orbVolume, nBlocks, nVolumes>>

\* What the playback scheduler writes outside its service.
playVars == <<sources, pending, nChunks, signals, startLog, arrivalLog, endMark,
              chunksAtEnd>>

\* What the dispatcher of inbound messages writes.
dispatchVars == <<timers, checkpoints, messages, sent, received, heard, completeLog,
                  transcriptLog>>

vars == <<services, apiKey, hasStarted, error, orbState, disconnectLog, captureVars,
          playVars, dispatchVars>>

\* The number of function calls received so far; fc.id counts from 1.
nFc == Len(received)

\* The fields of a GeminiLiveService after its constructor.
NoService ==
    [session |-> "none", inputCtx |-> "null", outputCtx |-> "null", stream |-> "null",
     processor |-> "null", thenQueue |-> <<>>, closureOrbState |-> "IDLE",
     nextStartTime |-> 0, clock |-> 0, closingInput |-> 0, closingOutput |-> 0]

\* geminiRef.current, read as a service not yet connected while it is null.
current == IF services = <<>> THEN NoService ELSE services[Len(services)]

\* The fields of geminiRef.current.
session == current.session
inputCtx == current.inputCtx
outputCtx == current.outputCtx
stream == current.stream
processor == current.processor
thenQueue == current.thenQueue
nextStartTime == current.nextStartTime

RECURSIVE SumSeq(_)
SumSeq(s) == IF s = <<>> THEN 0 ELSE s[1] + SumSeq(Tail(s))

\* The disconnect() calls suspended at either await, over all services.
closingInput == SumSeq([i \in DOMAIN services |-> services[i].closingInput])
closingOutput == SumSeq([i \in DOMAIN services |-> services[i].closingOutput])

---------------------------------------------------------------------------
(* Bounds of the model.                                                    *)

MaxCalls == 4      \* function calls received in one run
MaxFc == 2         \* function calls in one toolCall
MaxChunks == 2     \* audio chunks received in one run
MaxDur == 1        \* longest decoded buffer
MaxClock == 1      \* latest clock value reached while nothing is playing
MaxFrags == 4      \* transcription fragments received in one run
MaxItems == 2      \* chunks, fragments and function calls of the mixed specification
MaxBlocks == 2     \* audio blocks captured
MaxEnds == 2       \* clicks on the End button
MaxStarts == 2     \* services created by clicks on Start

---------------------------------------------------------------------------
(* Small helpers.                                                          *)

Max(a, b) == IF a >= b THEN a ELSE b

Last(s) == s[Len(s)]

Range(s) == {s[i] : i \in DOMAIN s}

---------------------------------------------------------------------------
(* App: the checkpoint list.                                               *)

\* The ids and statuses of INITIAL_CHECKPOINTS; the texts play no part.
INITIAL_CHECKPOINTS ==
    << [id |-> "greet", status |-> "current"],
       [id |-> "order_drink", status |-> "pending"],
       [id |-> "ask_bill", status |-> "pending"],
       [id |-> "farewell", status |-> "pending"] >>

CheckpointIds == {INITIAL_CHECKPOINTS[i].id : i \in DOMAIN INITIAL_CHECKPOINTS}

\* prev.findIndex(c => c.id === id), 1-based, 0 for -1.
findIndex(prev, id) ==
    IF \E i \in DOMAIN prev : prev[i].id = id
    THEN CHOOSE i \in DOMAIN prev :
             prev[i].id = id /\ \A j \in DOMAIN prev : prev[j].id = id => i <= j
    ELSE 0

\* A plausible slip: the last checkpoint is never marked.
completeNoLast(prev, id) ==
    LET idx == findIndex(prev, id) IN
    IF idx = 0 \/ idx = Len(prev) THEN prev
    ELSE [i \in DOMAIN prev |->
            IF i = idx THEN [prev[i] EXCEPT !.status = "completed"]
            ELSE IF i = idx + 1 THEN [prev[i] EXCEPT !.status = "current"]
                 ELSE prev[i]]

\* A plausible slip: an unknown id completes the first checkpoint.
completeUnknownFirst(prev, id) ==
    LET idx == IF findIndex(prev, id) = 0 THEN 1 ELSE findIndex(prev, id) IN
    [i \in DOMAIN prev |->
        IF i = idx THEN [prev[i] EXCEPT !.status = "completed"]
        ELSE IF i = idx + 1 THEN [prev[i] EXCEPT !.status = "current"]
             ELSE prev[i]]

\* The updater passed to setCheckpoints in handleCheckpointComplete.
handleCheckpointComplete(prev, id) ==
    LET idx == findIndex(prev, id) IN
    IF idx = 0 THEN prev
    ELSE [i \in DOMAIN prev |->
            IF i = idx THEN [prev[i] EXCEPT !.status = "completed"]
            ELSE IF i = idx + 1 THEN [prev[i] EXCEPT !.status = "current"]
                 ELSE prev[i]]

\* checkpoints.find(c => c.status === 'current') || null, as an index (0 for null).
currentCheckpoint(cps) ==
    IF \E i \in DOMAIN cps : cps[i].status = "current"
    THEN CHOOSE i \in DOMAIN cps :
             cps[i].status = "current"
             /\ \A j \in DOMAIN cps : cps[j].status = "current" => i <= j
    ELSE 0

isAllComplete(cps) == \A i \in DOMAIN cps : cps[i].status = "completed"

---------------------------------------------------------------------------
(* App: the transcript turns.  A turn is a record with role and text; the  *)
(* optional isFinal property of ChatMessage is a field that may be absent. *)

\* The updater passed to setMessages by service.onTranscriptUpdate (handleStart).
onTranscriptUpdate(prev, role, text, isFinal) ==
    IF prev # <<>> /\ Last(prev).role = role
    THEN [prev EXCEPT ![Len(prev)] = [Last(prev) EXCEPT !.text = @ \o text]]
    ELSE Append(prev, [role |-> role, text |-> text])

---------------------------------------------------------------------------
(* GeminiLiveService.handleMessage.  An inbound message is a record        *)
(*   audio    : 0 when parts[0].inlineData.data is absent, else the        *)
(*              duration of the buffer the chunk decodes to,               *)
(*   outText  : serverContent.outputTranscription.text ("" when absent),   *)
(*   inText   : serverContent.inputTranscription.text ("" when absent),    *)
(*   toolCall : toolCall.functionCalls, each [id, name, checkpointId]      *)
(*              (<<>> when toolCall is absent).                            *)

ToolName == "markCheckpointComplete"

\* The function calls of a toolCall that pass `fc.name === 'markCheckpointComplete'`.
RECURSIVE Marked(_)
Marked(calls) ==
    IF calls = <<>> THEN <<>>
    ELSE (IF calls[1].name = ToolName THEN <<calls[1]>> ELSE <<>>)
         \o Marked(Tail(calls))

\* The checkpoint list after onCheckpointComplete(id) for each call in turn.
RECURSIVE CompleteAll(_, _)
CompleteAll(cps, calls) ==
    IF calls = <<>> THEN cps
    ELSE CompleteAll(handleCheckpointComplete(cps, calls[1].checkpointId), Tail(calls))

\* The record of each of those calls.
RECURSIVE LogAll(_, _, _)
LogAll(cps, calls, err) ==
    IF calls = <<>> THEN <<>>
    ELSE LET after == handleCheckpointComplete(cps, calls[1].checkpointId) IN
         << [id |-> calls[1].checkpointId, before |-> cps, after |-> after,
             errBefore |-> err, errAfter |-> err] >>
         \o LogAll(after, Tail(calls), err)

\* The tool responses of those calls: functionResponses {id, name, response}.
RECURSIVE Responses(_)
Responses(calls) ==
    IF calls = <<>> THEN <<>>
    ELSE << [id |-> calls[1].id, name |-> calls[1].name] >> \o Responses(Tail(calls))

\* The transcript events of a message, in the order handleMessage raises them:
\* the output transcription as ('assistant', text, true), then the input
\* transcription as ('user', text, false).
TranscriptEvents(m) ==
    (IF m.outText # "" THEN << [role |-> "assistant", text |-> m.outText, isFinal |-> TRUE] >>
     ELSE <<>>)
    \o (IF m.inText # "" THEN << [role |-> "user", text |-> m.inText, isFinal |-> FALSE] >>
        ELSE <<>>)

RECURSIVE Transcribe(_, _)
Transcribe(msgs, evs) ==
    IF evs = <<>> THEN msgs
    ELSE Transcribe(onTranscriptUpdate(msgs, evs[1].role, evs[1].text, evs[1].isFinal),
                    Tail(evs))

RECURSIVE LogTranscript(_, _)
LogTranscript(msgs, evs) ==
    IF evs = <<>> THEN <<>>
    ELSE LET after == onTranscriptUpdate(msgs, evs[1].role, evs[1].text, evs[1].isFinal) IN
         << [role |-> evs[1].role, text |-> evs[1].text, isFinal |-> evs[1].isFinal,
             before |-> msgs, after |-> after] >>
         \o LogTranscript(after, Tail(evs))

\* Sections 2 and 3 of handleMessage (transcription, tool calls), which run at
\* once for a message without audio and after the await for one with audio.
\* `orb` is the orb state the section starts from.
Dispatch(m, orb) ==
    LET marked == Marked(m.toolCall) IN
    /\ messages' = Transcribe(messages, TranscriptEvents(m))
    /\ transcriptLog' = transcriptLog \o LogTranscript(messages, TranscriptEvents(m))
    /\ checkpoints' = CompleteAll(checkpoints, marked)
    /\ completeLog' = completeLog \o LogAll(checkpoints, marked, error)
    /\ orbState' = IF marked # <<>> THEN "CELEBRATING" ELSE orb
    /\ timers' = timers + Len(marked)
    /\ sent' = sent \o Responses(marked)

\* A plausible slip: the idle signal is never raised.
idleNever(srcs) == FALSE

\* `this.sources.size === 0` in the 'ended' listener.
idleSignal(srcs) == srcs = {}

\* The record of source.start for chunk n.
StartOf(n) == CHOOSE r \in Range(startLog) : r.n = n

\* When the source of chunk n stops playing: a start time already past plays at once.
EndTime(n) == Max(StartOf(n).t, StartOf(n).now) + StartOf(n).dur

\* this.sources of service i.
sourcesOf(srcs, i) == {n \in srcs : StartOf(n).svc = i}

\* utils/audioUtils.decodeAudioData, seen from its caller: a promise per call.
\* Nothing orders the promises of two calls and nothing bounds how long one
\* takes, so any decode in flight may be the next to settle.
decodeAudioData(p, inFlight) == p \in inFlight

\* handleMessage of service i up to the first suspension: the whole handler
\* for a message without audio, lines 133-139 for a message with audio.
HandleMessage(i, m) ==
    /\ services[i].session = "open"
    /\ received' = received \o m.toolCall
    /\ heard' = heard \o TranscriptEvents(m)
    /\ IF m.audio > 0
       THEN /\ signals' = Append(signals, TRUE)
            /\ orbState' = "SPEAKING"
            /\ services' = [services EXCEPT
                               ![i].nextStartTime = Max(@, services[i].clock)]
            /\ pending' = pending \cup {[n |-> nChunks + 1, msg |-> m, svc |-> i]}
            /\ nChunks' = nChunks + 1
            /\ arrivalLog' = Append(arrivalLog, services[i].clock)
            /\ UNCHANGED <<messages, transcriptLog, checkpoints, completeLog,
                           timers, sent>>
       ELSE /\ Dispatch(m, orbState)
            /\ UNCHANGED <<signals, services, pending, nChunks, arrivalLog>>
    /\ UNCHANGED <<apiKey, hasStarted, error, disconnectLog, captureVars, sources,
                   startLog, endMark, chunksAtEnd>>

\* decodeAudioData resolves: handleMessage resumes at line 140 and runs to its end.
DecodeResolve(p) ==
    /\ decodeAudioData(p, pending)
    /\ pending' = pending \ {p}
    /\ startLog' = Append(startLog, [n |-> p.n, t |-> services[p.svc].nextStartTime,
                                     dur |-> p.msg.audio, now |-> services[p.svc].clock,
                                     svc |-> p.svc])
    /\ services' = [services EXCEPT ![p.svc].nextStartTime = @ + p.msg.audio]
    /\ sources' = sources \cup {p.n}
    /\ Dispatch(p.msg, orbState)
    /\ UNCHANGED <<apiKey, hasStarted, error, disconnectLog, captureVars, nChunks,
                   received, heard, signals, arrivalLog, endMark, chunksAtEnd>>

\* decodeAudioData rejects: the await throws and the rest of handleMessage is skipped.
DecodeReject(p) ==
    /\ decodeAudioData(p, pending)
    /\ pending' = pending \ {p}
    /\ UNCHANGED <<services, apiKey, hasStarted, error, orbState, disconnectLog,
                   captureVars, dispatchVars, sources, nChunks, signals, startLog,
                   arrivalLog, endMark, chunksAtEnd>>

\* The 'ended' listener of the source of chunk n, once its playback is over.
Ended(n) ==
    /\ n \in sources
    /\ services[StartOf(n).svc].clock >= EndTime(n)
    /\ sources' = sources \ {n}
    /\ endMark' = Len(signals)
    /\ chunksAtEnd' = nChunks
    /\ IF idleSignal(sourcesOf(sources', StartOf(n).svc))
       THEN signals' = Append(signals, FALSE) /\ orbState' = "IDLE"
       ELSE UNCHANGED <<signals, orbState>>
    /\ UNCHANGED <<services, apiKey, hasStarted, error, disconnectLog, captureVars,
                   dispatchVars, pending, nChunks, startLog, arrivalLog>>

\* The output clock of service i advances, which it does while the context
\* is running.  It runs on past MaxClock only while a source of the service
\* plays.
Tick(i) ==
    /\ services[i].session = "open"
    /\ services[i].outputCtx = "running"
    /\ \/ services[i].clock < MaxClock
       \/ \E n \in sourcesOf(sources, i) : services[i].clock < EndTime(n)
    /\ services' = [services EXCEPT ![i].clock = @ + 1]
    /\ UNCHANGED <<apiKey, hasStarted, error, orbState, disconnectLog, captureVars,
                   playVars, dispatchVars>>

\* The callback of setTimeout(() => setOrbState(OrbState.IDLE), 2500).
CelebrationTimeout ==
    /\ timers > 0
    /\ timers' = timers - 1
    /\ orbState' = "IDLE"
    /\ UNCHANGED <<services, apiKey, hasStarted, error, disconnectLog, captureVars,
                   playVars, checkpoints, messages, sent, received, heard, completeLog,
                   transcriptLog>>

\* The state of an AudioContext just constructed: running, or suspended by
\* the browser until it is resumed.
NewContextStates == {"running", "suspended"}

\* Where connect() first suspends, given the states of the two contexts it
\* has just constructed: at the resume() of the first suspended one (46-47),
\* else at getUserMedia (52).
firstAwait(inSt, outSt) ==
    IF inSt = "suspended" THEN "resumingInput"
    ELSE IF outSt = "suspended" THEN "resumingOutput"
    ELSE "acquiring"

\* The service that handleStart creates, at the first suspension of its
\* connect(): both audio contexts exist, in the state the browser gave them.
NewService(orb, inSt, outSt) ==
    [NoService EXCEPT !.session = firstAwait(inSt, outSt), !.inputCtx = inSt,
                      !.outputCtx = outSt, !.closureOrbState = orb]

\* handleStart from the click to the first suspension of connect(): without
\* an API key only the error is set; with one the error is cleared and a new
\* service is created and put in geminiRef.  Nothing disconnects the service
\* it replaces there, whose callbacks stay wired to the App.
handleStart(inSt, outSt) ==
    /\ IF ~apiKey
       THEN /\ error' = "Missing API Key in environment variables."
            /\ UNCHANGED services
       ELSE /\ error' = "null"
            /\ services' = Append(services, NewService(orbState, inSt, outSt))
    /\ UNCHANGED <<apiKey, hasStarted, orbState, disconnectLog, captureVars, playVars,
                   dispatchVars>>

\* The first click on Start; the button is on screen while hasStarted is false.
HandleStart ==
    /\ ~hasStarted
    /\ services = <<>>
    /\ \E inSt, outSt \in NewContextStates : handleStart(inSt, outSt)

\* A later click on Start, when a service exists already.
HandleStartAgain ==
    /\ ~hasStarted
    /\ services # <<>>
    /\ \E inSt, outSt \in NewContextStates : handleStart(inSt, outSt)

\* The resume() that connect() of service i awaits resolves: the context runs
\* and connect() goes on to its next suspension.
ResumeResolved(i) ==
    /\ \/ /\ services[i].session = "resumingInput"
          /\ services[i].inputCtx = "suspended"
          /\ services' = [services EXCEPT
                             ![i].inputCtx = "running",
                             ![i].session = firstAwait("running", services[i].outputCtx)]
       \/ /\ services[i].session = "resumingOutput"
          /\ services[i].outputCtx = "suspended"
          /\ services' = [services EXCEPT ![i].outputCtx = "running",
                                          ![i].session = "acquiring"]
    /\ UNCHANGED <<apiKey, hasStarted, error, orbState, disconnectLog, captureVars,
                   playVars, dispatchVars>>

\* The resume() that connect() of service i awaits rejects, the context
\* having been closed meanwhile: connect() throws and the catch of the
\* handleStart that created the service reports it.
ResumeRejected(i) ==
    /\ \/ services[i].session = "resumingInput" /\ services[i].inputCtx = "closed"
       \/ services[i].session = "resumingOutput" /\ services[i].outputCtx = "closed"
    /\ services' = [services EXCEPT ![i].session = "none"]
    /\ error' = "Failed to connect. Please check permissions."
    /\ UNCHANGED <<apiKey, hasStarted, orbState, disconnectLog, captureVars, playVars,
                   dispatchVars>>

\* getUserMedia resolves for service i: connect() stores the stream, assigns
\* sessionPromise without awaiting it and returns; the handleStart that
\* created the service goes on to setHasStarted(true).
MediaGranted(i) ==
    /\ services[i].session = "acquiring"
    /\ services' = [services EXCEPT ![i].stream = "live", ![i].session = "connecting"]
    /\ hasStarted' = TRUE
    /\ UNCHANGED <<apiKey, error, orbState, disconnectLog, captureVars, playVars,
                   dispatchVars>>

\* getUserMedia rejects for service i: connect() throws and the catch of the
\* handleStart that created the service reports it.
MediaDenied(i) ==
    /\ services[i].session = "acquiring"
    /\ services' = [services EXCEPT ![i].session = "none"]
    /\ error' = "Failed to connect. Please check permissions."
    /\ UNCHANGED <<apiKey, hasStarted, orbState, disconnectLog, captureVars, playVars,
                   dispatchVars>>

\* The onopen callback of the session of service i: handleOpen builds the
\* capture chain.
HandleOpen(i) ==
    /\ services[i].session = "connecting"
    /\ services' = [services EXCEPT
                       ![i].session = "opened",
                       ![i].processor = IF services[i].inputCtx = "null"
                                           \/ services[i].stream = "null"
                                        THEN @ ELSE "active"]
    /\ UNCHANGED <<apiKey, hasStarted, error, orbState, disconnectLog, captureVars,
                   playVars, dispatchVars>>

\* A plausible slip: the callbacks registered on the pending promise run last first.
flushReversed(queue) == [i \in DOMAIN queue |-> queue[Len(queue) + 1 - i]]

\* The callbacks registered with then() on one promise run in the order of
\* their registration once it resolves.
flushThen(queue) == queue

\* sessionPromise of service i resolves: the callbacks waiting on it run.
SessionResolved(i) ==
    /\ services[i].session = "opened"
    /\ services' = [services EXCEPT ![i].session = "open", ![i].thenQueue = <<>>]
    /\ realtimeSent' = realtimeSent \o flushThen(services[i].thenQueue)
    /\ UNCHANGED <<apiKey, hasStarted, error, orbState, disconnectLog, orbVolume,
                   nBlocks, nVolumes, playVars, dispatchVars>>

\* new Error(err.message || "Session connection error").message in onerror;
\* "" stands for an error event without a message.
errorMessage(msg) == IF msg # "" THEN msg ELSE "Session connection error"

\* The handshake of service i fails: sessionPromise rejects, the callbacks
\* waiting on it never run, and the session's onerror callback reaches App's
\* service.onError.
HandshakeFail(i, msg) ==
    /\ services[i].session \in {"connecting", "opened"}
    /\ services' = [services EXCEPT ![i].session = "failed", ![i].thenQueue = <<>>]
    /\ error' = errorMessage(msg)
    /\ hasStarted' = FALSE
    /\ UNCHANGED <<apiKey, orbState, disconnectLog, captureVars, playVars,
                   dispatchVars>>

\* The onerror callback of the open session of service i and App's
\* service.onError.
OnError(i, msg) ==
    /\ services[i].session = "open"
    /\ error' = errorMessage(msg)
    /\ hasStarted' = FALSE
    /\ UNCHANGED <<services, apiKey, orbState, disconnectLog, captureVars, playVars,
                   dispatchVars>>

\* App's service.onVolumeUpdate: the next orbState, given the current one, the
\* one the closure sees and the volume (1 above the 0.1 threshold, 0 not).
onVolumeUpdate(orb, seen, vol) ==
    IF vol = 1 /\ seen # "SPEAKING" /\ seen # "CELEBRATING" THEN "LISTENING"
    ELSE IF vol = 0 /\ seen = "LISTENING" THEN "IDLE"
    ELSE orb

\* A plausible slip: disconnect() leaves the capture callback in place.
captureUncleared(proc, ctx) == proc # "null"

\* Whether onaudioprocess fires: the callback is set (handleOpen) and not
\* cleared (disconnect), and the input context is processing audio.
capturing(proc, ctx) == proc = "active" /\ ctx = "running"

\* processor.onaudioprocess of service i for one captured block: the volume is
\* reported and the send of the block is registered on sessionPromise.
AudioProcess(i, vol) ==
    /\ capturing(services[i].processor, services[i].inputCtx)
    /\ nBlocks' = nBlocks + 1
    /\ nVolumes' = nVolumes + 1
    /\ orbVolume' = vol
    /\ orbState' = onVolumeUpdate(orbState, services[i].closureOrbState, vol)
    /\ IF services[i].session = "open"
       THEN realtimeSent' = Append(realtimeSent, nBlocks + 1) /\ UNCHANGED services
       ELSE IF services[i].session = "opened"
       THEN /\ services' = [services EXCEPT ![i].thenQueue = Append(@, nBlocks + 1)]
            /\ UNCHANGED realtimeSent
       ELSE UNCHANGED <<services, realtimeSent>>
    /\ UNCHANGED <<apiKey, hasStarted, error, disconnectLog, playVars, dispatchVars>>

\* disconnect() of a service up to its first suspension: the capture callback
\* is cleared, the tracks stopped and the input context closed.
disconnect(s) ==
    [s EXCEPT !.processor = IF @ = "null" THEN "null" ELSE "cleared",
              !.stream = IF @ = "null" THEN "null" ELSE "stopped",
              !.inputCtx = "closed",
              !.closingInput = IF s.inputCtx = "closed" THEN @ ELSE @ + 1]

\* handleEnd from the click to the first suspension of disconnect(), called
\* on geminiRef.current.  close() on a context already closed rejects, which
\* ends the call.
HandleEnd ==
    /\ hasStarted
    /\ services # <<>>
    /\ services' = [services EXCEPT ![Len(services)] = disconnect(@)]
    /\ disconnectLog' = IF inputCtx = "closed" THEN Append(disconnectLog, "raised")
                        ELSE disconnectLog
    /\ UNCHANGED <<apiKey, hasStarted, error, orbState, captureVars, playVars,
                   dispatchVars>>

\* disconnect() of service i resumes after the input context has closed and
\* closes the output context of that service.
DisconnectResume(i) ==
    /\ services[i].closingInput > 0
    /\ IF services[i].outputCtx = "closed"
       THEN /\ services' = [services EXCEPT ![i].closingInput = @ - 1]
            /\ disconnectLog' = Append(disconnectLog, "raised")
       ELSE /\ services' = [services EXCEPT
                               ![i].closingInput = @ - 1,
                               ![i].closingOutput = @ + 1,
                               ![i].outputCtx = IF @ = "null" THEN "null" ELSE "closed"]
            /\ UNCHANGED disconnectLog
    /\ UNCHANGED <<apiKey, hasStarted, error, orbState, captureVars, playVars,
                   dispatchVars>>

\* disconnect() of service i returns and the handleEnd that called it resets
\* the presentation.
HandleEndFinish(i) ==
    /\ services[i].closingOutput > 0
    /\ services' = [services EXCEPT ![i].closingOutput = @ - 1]
    /\ disconnectLog' = Append(disconnectLog, "returned")
    /\ hasStarted' = FALSE
    /\ orbState' = "IDLE"
    /\ messages' = <<>>
    /\ checkpoints' = INITIAL_CHECKPOINTS
    /\ UNCHANGED <<apiKey, error, timers, sent, received, heard, completeLog,
                   transcriptLog, captureVars, playVars>>

---------------------------------------------------------------------------
(* The initial state: App mounted, no service yet.                         *)

Init ==
    /\ services = <<>>
    /\ apiKey \in BOOLEAN
    /\ hasStarted = FALSE
    /\ error = "null"
    /\ orbState = "IDLE"
    /\ orbVolume = 0
    /\ timers = 0
    /\ checkpoints = INITIAL_CHECKPOINTS
    /\ messages = <<>>
    /\ sources = {}
    /\ pending = {}
    /\ sent = <<>>
    /\ realtimeSent = <<>>
    /\ nChunks = 0
    /\ received = <<>>
    /\ heard = <<>>
    /\ nBlocks = 0
    /\ nVolumes = 0
    /\ disconnectLog = <<>>
    /\ signals = <<>>
    /\ startLog = <<>>
    /\ arrivalLog = <<>>
    /\ endMark = 0
    /\ chunksAtEnd = 0
    /\ completeLog = <<>>
    /\ transcriptLog = <<>>

---------------------------------------------------------------------------
(* Inputs.                                                                 *)

Fragments == {"Bon", "jour"}

\* The message of the error event given to onerror: none, or some text.
ErrMessages == {"", "boom"}

ArgIds == CheckpointIds \cup {"nonexistent"}

\* A function call: the declared tool with any checkpointId, or another name
\* (whose arguments handleMessage never reads).
FcInputs ==
    [name : {ToolName}, arg : ArgIds] \cup {[name |-> "other", arg |-> "greet"]}

\* The toolCalls of k function calls, numbered from nFc + 1.
ToolCalls(k) ==
    {[i \in 1..k |-> [id |-> nFc + i, name |-> f[i].name, checkpointId |-> f[i].arg]] :
        f \in [1..k -> FcInputs]}

NoAudio == [audio |-> 0, outText |-> "", inText |-> "", toolCall |-> <<>>]

\* Messages that carry a toolCall of k function calls only.
ToolMessages(k) == {[NoAudio EXCEPT !.toolCall = c] : c \in ToolCalls(k)}

\* Messages that carry an audio chunk only.
AudioMessages == {[NoAudio EXCEPT !.audio = d] : d \in 1..MaxDur}

\* Messages that carry transcription only.
TextMessages ==
    {[NoAudio EXCEPT !.outText = o, !.inText = i] :
        o \in Fragments \cup {""}, i \in Fragments \cup {""}} \ {NoAudio}

\* Messages that carry one function call, with or without an audio chunk.
ToolAudioMessages ==
    {[NoAudio EXCEPT !.audio = d, !.toolCall = c] : d \in 0..1, c \in ToolCalls(1)}

\* Messages that carry any mix of the three.
MixedMessages ==
    {[audio |-> d, outText |-> o, inText |-> "", toolCall |-> c] :
        d \in 0..1, o \in Fragments \cup {""}, c \in {<<>>} \cup ToolCalls(1)} \ {NoAudio}

---------------------------------------------------------------------------
(* Specifications.                                                         *)

\* The connection is made: the steps from the first click to the open
\* session.
Connect ==
    \/ HandleStart
    \/ \E i \in DOMAIN services : ResumeResolved(i)
    \/ \E i \in DOMAIN services : MediaGranted(i)
    \/ \E i \in DOMAIN services : HandleOpen(i)
    \/ \E i \in DOMAIN services : SessionResolved(i)

\* The checkpoint list under tool calls, with at most one session error on
\* screen.
NextCheckpoint ==
    \/ Connect
    \/ \E i \in DOMAIN services, msg \in ErrMessages : error = "null" /\ OnError(i, msg)
    \/ \E k \in 1..MaxFc :
          /\ nFc + k <= MaxCalls
          /\ \E i \in DOMAIN services, m \in ToolMessages(k) : HandleMessage(i, m)
    \/ CelebrationTimeout

SpecCheckpoint == Init /\ [][NextCheckpoint]_vars

\* The playback scheduler under audio chunks.
NextPlayback ==
    \/ Connect
    \/ \E i \in DOMAIN services, m \in AudioMessages :
          nChunks < MaxChunks /\ HandleMessage(i, m)
    \/ \E p \in pending : DecodeResolve(p)
    \/ \E p \in pending : DecodeReject(p)
    \/ \E n \in sources : Ended(n)
    \/ \E i \in DOMAIN services : Tick(i)

SpecPlayback == Init /\ [][NextPlayback]_vars

\* The clock runs, every decode settles and every source that has played out
\* raises 'ended'.
SpecPlaybackFair ==
    /\ Init
    /\ [][NextPlayback]_vars
    /\ WF_vars(\E i \in DOMAIN services : Tick(i))
    /\ WF_vars(\E p \in pending : DecodeResolve(p) \/ DecodeReject(p))
    /\ WF_vars(\E n \in sources : Ended(n))

\* The transcript under transcription fragments.
NextTranscript ==
    \/ Connect
    \/ \E i \in DOMAIN services, m \in TextMessages :
          /\ Len(transcriptLog) + Len(TranscriptEvents(m)) <= MaxFrags
          /\ HandleMessage(i, m)

SpecTranscript == Init /\ [][NextTranscript]_vars

\* The tool responses under function calls that come with and without audio.
NextToolOrder ==
    \/ Connect
    \/ \E i \in DOMAIN services, m \in ToolAudioMessages :
          nFc < MaxItems /\ HandleMessage(i, m)
    \/ \E p \in pending : DecodeResolve(p)
    \/ \E p \in pending : DecodeReject(p)
    \/ CelebrationTimeout

SpecToolOrder == Init /\ [][NextToolOrder]_vars

\* Messages of the session specification: an output transcription or one
\* function call.
SessionMessages == {m \in TextMessages : m.inText = ""} \cup ToolMessages(1)

\* The session from the click on Start to the end of handleEnd, with capture,
\* a few inbound messages and the errors of the transport.
NextSession ==
    \/ Connect
    \/ \E i \in DOMAIN services : MediaDenied(i)
    \/ \E i \in DOMAIN services, msg \in ErrMessages : HandshakeFail(i, msg)
    \/ \E i \in DOMAIN services, msg \in ErrMessages : OnError(i, msg)
    \/ \E i \in DOMAIN services, vol \in 0..1 :
          nBlocks < MaxBlocks /\ AudioProcess(i, vol)
    \/ \E i \in DOMAIN services, m \in SessionMessages :
          nFc + Len(transcriptLog) < MaxItems /\ HandleMessage(i, m)
    \/ CelebrationTimeout
    \/ Len(disconnectLog) + closingInput + closingOutput < MaxEnds /\ HandleEnd
    \/ \E i \in DOMAIN services : DisconnectResume(i)
    \/ \E i \in DOMAIN services : HandleEndFinish(i)

SpecSession == Init /\ [][NextSession]_vars

\* The capture path alone: the session's life cycle with the microphone's
\* blocks and the errors of the transport, and no inbound message (no message
\* handler reads or writes the capture chain or the realtime channel).
NextCapture ==
    \/ Connect
    \/ \E i \in DOMAIN services : MediaDenied(i)
    \/ \E i \in DOMAIN services, msg \in ErrMessages : HandshakeFail(i, msg)
    \/ \E i \in DOMAIN services, msg \in ErrMessages : OnError(i, msg)
    \/ \E i \in DOMAIN services, vol \in 0..1 :
          nBlocks < MaxBlocks /\ AudioProcess(i, vol)
    \/ Len(disconnectLog) + closingInput + closingOutput < MaxEnds /\ HandleEnd
    \/ \E i \in DOMAIN services : DisconnectResume(i)
    \/ \E i \in DOMAIN services : HandleEndFinish(i)

SpecCapture == Init /\ [][NextCapture]_vars

\* The events of the restart specification so far: blocks captured, chunks,
\* function calls and fragments received.
nEvents == nBlocks + nChunks + nFc + Len(transcriptLog)

\* The services created by a click on Start when one existed already.
nRestarts == IF services = <<>> THEN 0 ELSE Len(services) - 1

\* Messages of the restart specification: one of each kind.
RestartMessages ==
    AudioMessages
    \cup {m \in SessionMessages :
             /\ m.outText \in {"", "Bon"}
             /\ \A x \in DOMAIN m.toolCall :
                    m.toolCall[x].name = ToolName /\ m.toolCall[x].checkpointId = "greet"}

\* The services that successive clicks on Start create, with the errors and
\* the End clicks in between, and the callbacks of every service created.
NextRestart ==
    \/ Connect
    \/ Len(services) < MaxStarts /\ HandleStartAgain
    \/ \E i \in DOMAIN services : ResumeRejected(i)
    \/ \E i \in DOMAIN services : MediaDenied(i)
    \/ \E i \in DOMAIN services, msg \in ErrMessages : HandshakeFail(i, msg)
    \/ \E i \in DOMAIN services, msg \in ErrMessages : OnError(i, msg)
    \/ \E i \in DOMAIN services, vol \in 0..1 :
          nEvents < MaxItems /\ AudioProcess(i, vol)
    \/ \E i \in DOMAIN services, m \in RestartMessages :
          nEvents < MaxItems /\ HandleMessage(i, m)
    \/ \E p \in pending : DecodeResolve(p)
    \/ \E p \in pending : DecodeReject(p)
    \/ \E n \in sources : Ended(n)
    \/ \E i \in DOMAIN services : Tick(i)
    \/ CelebrationTimeout
    \/ /\ Len(disconnectLog) + closingInput + closingOutput + nRestarts < MaxEnds
       /\ HandleEnd
    \/ \E i \in DOMAIN services : DisconnectResume(i)
    \/ \E i \in DOMAIN services : HandleEndFinish(i)

SpecRestart == Init /\ [][NextRestart]_vars

\* Everything together, on few messages.
Next ==
    \/ Connect
    \/ \E i \in DOMAIN services, msg \in ErrMessages : OnError(i, msg)
    \/ \E i \in DOMAIN services, m \in MixedMessages :
          nChunks + nFc + Len(transcriptLog) < MaxItems /\ HandleMessage(i, m)
    \/ \E p \in pending : DecodeResolve(p)
    \/ \E p \in pending : DecodeReject(p)
    \/ \E n \in sources : Ended(n)
    \/ \E i \in DOMAIN services : Tick(i)
    \/ CelebrationTimeout

Spec == Init /\ [][Next]_vars

---------------------------------------------------------------------------
(* Properties of the checkpoint list (SpecCheckpoint).                     *)

N == Len(INITIAL_CHECKPOINTS)

Currents(cps) == {i \in DOMAIN cps : cps[i].status = "current"}

\* The ids of the first k checkpoints, in ordinal order.
InOrder(k) == [i \in 1..k |-> INITIAL_CHECKPOINTS[i].id]

LoggedIds == [x \in DOMAIN completeLog |-> completeLog[x].id]

\* C1: in every reachable state at most one checkpoint is current, every
\* checkpoint before the current one is completed and every one after it is
\* pending.
CheckpointOrder ==
    /\ Cardinality(Currents(checkpoints)) <= 1
    /\ \A i \in Currents(checkpoints) :
          /\ \A j \in 1..(i - 1) : checkpoints[j].status = "completed"
          /\ \A j \in (i + 1)..N : checkpoints[j].status = "pending"

\* C2: while the calls so far are complete(id0), complete(id1), ... in ordinal
\* order, each of the first N-1 calls leaves exactly one current checkpoint (the
\* next one), and the N-th leaves none current and all completed.
InOrderProgression ==
    (Len(completeLog) <= N /\ LoggedIds = InOrder(Len(completeLog))) =>
        \A x \in DOMAIN completeLog :
            IF x < N
            THEN Currents(completeLog[x].after) = {x + 1}
            ELSE /\ Currents(completeLog[x].after) = {}
                 /\ isAllComplete(completeLog[x].after)

InOrderDone ==
    /\ Len(completeLog) = N
    /\ LoggedIds = InOrder(N)
    /\ isAllComplete(checkpoints)
    /\ currentCheckpoint(checkpoints) = 0

\* C3: complete(id) with an id that matches no checkpoint leaves every
\* checkpoint as it was and raises no error.
UnknownIdNoOp ==
    \A x \in DOMAIN completeLog :
        completeLog[x].id \notin CheckpointIds =>
            /\ completeLog[x].after = completeLog[x].before
            /\ completeLog[x].errAfter = completeLog[x].errBefore

UnknownIdSeen ==
    \E x \in DOMAIN completeLog :
        /\ completeLog[x].id = "nonexistent"
        /\ completeLog[x].before # INITIAL_CHECKPOINTS
        /\ checkpoints = completeLog[x].before

\* C4: after complete(id) of the last checkpoint no checkpoint is current.
FinalLeavesNoCurrent ==
    \A x \in DOMAIN completeLog :
        completeLog[x].id = INITIAL_CHECKPOINTS[N].id =>
            Currents(completeLog[x].after) = {}

\* The calls complete(k) made while an earlier checkpoint j is the current one.
Skips ==
    {x \in DOMAIN completeLog :
        LET j == currentCheckpoint(completeLog[x].before)
            k == findIndex(completeLog[x].before, completeLog[x].id)
        IN  j # 0 /\ j < k}

SkipAdvances(x) ==
    LET k == findIndex(completeLog[x].before, completeLog[x].id) IN
    /\ completeLog[x].after[k].status = "completed"
    /\ k < N => completeLog[x].after[k + 1].status = "current"

\* C5: such a call completes k, makes k+1 current, and leaves the skipped
\* checkpoint j pending, never current or completed afterwards.
SkipOrphansPending ==
    \A x \in Skips :
        LET j == currentCheckpoint(completeLog[x].before) IN
        /\ SkipAdvances(x)
        /\ completeLog[x].after[j].status = "pending"
        /\ \A y \in x..Len(completeLog) :
              completeLog[y].after[j].status \notin {"current", "completed"}

\* The complete calls that a step adds to the log.
NewCalls == SubSeq(completeLog', Len(completeLog) + 1, Len(completeLog'))

\* C22: a step whose complete calls all carry an unknown id does not put the
\* orb into the CELEBRATING state and schedules no revert-to-idle timer.
UnknownIdNoCelebration ==
    [][ (/\ Len(completeLog') > Len(completeLog)
         /\ \A x \in DOMAIN NewCalls : NewCalls[x].id \notin CheckpointIds)
        => orbState' = orbState /\ timers' = timers ]_vars

\* C23: no complete call changes the status of a completed checkpoint.
CompletedStaysCompleted ==
    \A x \in DOMAIN completeLog :
        \A i \in DOMAIN completeLog[x].before :
            completeLog[x].before[i].status = "completed"
                => completeLog[x].after[i].status = "completed"

---------------------------------------------------------------------------
(* Properties of the playback scheduler (SpecPlayback, SpecPlaybackFair).  *)

\* C6: in receipt order the start times satisfy start[i+1] >= start[i] + d[i],
\* the first chunk starts no earlier than the clock at its arrival, and the
\* buffers are scheduled in receipt order.
PlaybackNonOverlap ==
    /\ \A a, b \in Range(startLog) : a.n < b.n => b.t >= a.t + a.dur
    /\ \A a \in Range(startLog) : a.n = 1 => a.t >= arrivalLog[1]
    /\ \A x, y \in DOMAIN startLog : x < y => startLog[x].n < startLog[y].n

\* C7: source.start(t) is never called with t before the output clock.
NeverStartInPast == \A a \in Range(startLog) : a.t >= a.now

\* C8: a signal is raised exactly when the active set crosses between empty and
\* non-empty: active on empty -> non-empty, idle on non-empty -> empty.
SignalOnTransitionsOnly ==
    [][/\ (signals' # signals) <=> ((sources = {}) # (sources' = {}))
       /\ (sources = {} /\ sources' # {}) => signals' = Append(signals, TRUE)
       /\ (sources # {} /\ sources' = {}) => signals' = Append(signals, FALSE)]_vars

\* The signals raised by the latest 'ended' callback and after it.
SinceLastEnd == SubSeq(signals, endMark + 1, Len(signals))

\* Every scheduled buffer has ended and no chunk has arrived since the last one did.
AllEnded == startLog # <<>> /\ sources = {} /\ nChunks = chunksAtEnd

\* C9: when no chunk arrives any more, once every scheduled buffer has ended the
\* active set is empty and idle was signalled exactly once, by the last 'ended'
\* callback, with no active signal after it; and the active set does empty.
IdleOnceAfterLastEnd ==
    /\ [](AllEnded => SinceLastEnd = <<FALSE>>)
    /\ <>[](sources = {} /\ pending = {})

TwoEnded ==
    /\ AllEnded
    /\ pending = {}
    /\ Len(startLog) = 2
    /\ Len(SelectSeq(signals, LAMBDA b : ~b)) = 2

\* C24: whenever the active set is not empty the signal emitted last is the
\* active one.
ActiveWhilePlaying == sources # {} => signals # <<>> /\ Last(signals)

---------------------------------------------------------------------------
(* Properties of the transcript (SpecTranscript).                          *)

\* Whether a turn counts as finalized: an absent isFinal reads as not finalized.
Finalized(turn) == "isFinal" \in DOMAIN turn /\ turn.isFinal

\* C10: an event whose role is the last turn's role extends that turn's text
\* and sets its finalized flag to the event's isFinal; any other event appends a
\* new turn whose text is the fragment.
TranscriptAggregation ==
    \A x \in DOMAIN transcriptLog :
        LET e == transcriptLog[x] IN
        IF e.before # <<>> /\ Last(e.before).role = e.role
        THEN /\ Len(e.after) = Len(e.before)
             /\ SubSeq(e.after, 1, Len(e.before) - 1) = SubSeq(e.before, 1, Len(e.before) - 1)
             /\ Last(e.after).role = e.role
             /\ Last(e.after).text = Last(e.before).text \o e.text
             /\ Finalized(Last(e.after)) = e.isFinal
        ELSE /\ Len(e.after) = Len(e.before) + 1
             /\ SubSeq(e.after, 1, Len(e.before)) = e.before
             /\ Last(e.after).role = e.role
             /\ Last(e.after).text = e.text

\* Whether the turn that event x finds last in the transcript was finalized:
\* the event before x, which wrote that turn, was delivered as final.
PrevFinal(x) == x > 1 /\ transcriptLog[x - 1].isFinal

\* C11: an event starts a new turn whenever the previous turn was finalized,
\* also when its role is the previous turn's role; its text is appended to the
\* current turn only when the role is unchanged and that turn is not finalized.
NewTurnAfterFinal ==
    \A x \in DOMAIN transcriptLog :
        LET e == transcriptLog[x] IN
        IF e.before # <<>> /\ Last(e.before).role = e.role /\ ~PrevFinal(x)
        THEN /\ Len(e.after) = Len(e.before)
             /\ Last(e.after).text = Last(e.before).text \o e.text
        ELSE /\ Len(e.after) = Len(e.before) + 1
             /\ SubSeq(e.after, 1, Len(e.before)) = e.before
             /\ Last(e.after).text = e.text

---------------------------------------------------------------------------
(* Properties of the tool responses (SpecCheckpoint, Spec).                *)

\* The function call with this id is in a message whose handler is suspended.
InFlight(id) ==
    \E p \in pending : \E i \in DOMAIN p.msg.toolCall : p.msg.toolCall[i].id = id

\* The positions in `sent` of the responses that carry this id.
ResponsesTo(id) == {y \in DOMAIN sent : sent[y].id = id}

\* C12: every function call received, once the handler of its message is not
\* suspended any more, has exactly one response, which carries its id and name,
\* whatever its name; and every response answers a call that was received.
EveryCallAnswered ==
    /\ \A x \in DOMAIN received :
          \/ InFlight(received[x].id)
          \/ /\ Cardinality(ResponsesTo(received[x].id)) = 1
             /\ \A y \in ResponsesTo(received[x].id) : sent[y].name = received[x].name
    /\ \A y \in DOMAIN sent : \E x \in DOMAIN received : received[x].id = sent[y].id

\* C13: the responses are sent in the order in which their function calls were
\* received (fc.id numbers the calls in that order), also when the message of
\* the earlier call carries an audio chunk.
ResponsesInReceiptOrder ==
    \A x, y \in DOMAIN sent : x < y => sent[x].id < sent[y].id

---------------------------------------------------------------------------
(* Properties of capture and of the connection lifecycle (SpecSession).    *)

\* The blocks captured so far, in capture order.
Captured == [i \in 1..nBlocks |-> i]

\* C14: every captured block has produced exactly one volume event and, while
\* the session is connected, exactly one RealtimeInput, and the RealtimeInputs
\* were sent in capture order; until the session is connected the blocks wait
\* in capture order.
CaptureInOrder ==
    /\ nVolumes = nBlocks
    /\ session = "open" => realtimeSent = Captured /\ thenQueue = <<>>
    /\ session = "opened" => realtimeSent \o thenQueue = Captured

\* All the blocks of a run were captured and sent over the connected session.
AllBlocksSent ==
    /\ session = "open"
    /\ nBlocks = MaxBlocks
    /\ nVolumes = MaxBlocks
    /\ realtimeSent = Captured

\* C15: the presentation marks the session started only once the remote
\* endpoint has acknowledged the open, never while the handshake is pending or
\* after it has failed.
StartedOnlyOnceOpen == hasStarted => session \in {"opened", "open"}

\* C16: disconnect() on a session already disconnected is a no-op: no call of
\* disconnect() ends by raising an error.
DisconnectNeverRaises == "raised" \notin Range(disconnectLog)

\* The capture callback is cleared, the tracks are stopped and both audio
\* contexts are closed.
Released ==
    /\ processor # "active"
    /\ stream # "live"
    /\ inputCtx = "closed"
    /\ outputCtx = "closed"

\* The live session exists: its callbacks can still run.
SessionLive == session \in {"connecting", "opened", "open"}

\* C17: once a call of disconnect() has ended, however it ended, every
\* resource is released and the session is disconnected.
DisconnectReleasesAll == disconnectLog # <<>> => Released /\ ~SessionLive

\* C18: after a call of disconnect() has returned, no callback of the session
\* changes the playback state, handles an inbound message or sends anything.
NoCallbackAfterDisconnect ==
    [][ "returned" \in Range(disconnectLog) =>
            UNCHANGED <<nextStartTime, sources, signals, transcriptLog, completeLog,
                        sent, realtimeSent>> ]_vars

\* C19: after the transport has reported a session error the capture and
\* output resources are released and the session is disconnected.
SessionErrorReleases ==
    error \in {errorMessage(msg) : msg \in ErrMessages} => Released /\ ~SessionLive

\* C26: a RealtimeInput is sent only over the connected session: none before
\* the open has been acknowledged and the session resolved, and no block is
\* captured, hence none sent, once disconnect() has cleared the capture callback.
RealtimeOnlyWhileConnected ==
    /\ [](realtimeSent # <<>> => session = "open")
    /\ [][realtimeSent' # realtimeSent => session' = "open"]_vars
    /\ [][processor = "cleared" => nBlocks' = nBlocks /\ nVolumes' = nVolumes]_vars

\* Blocks were sent over the connected session before disconnect() cleared the
\* capture callback, with blocks yet to capture.
SentThenCleared ==
    /\ session = "open"
    /\ processor = "cleared"
    /\ realtimeSent # <<>>
    /\ nBlocks < MaxBlocks

---------------------------------------------------------------------------
(* Properties of a failed decode (SpecPlayback).                           *)

\* The chunks whose decode failed: received, not being decoded, never started.
Rejected ==
    {n \in 1..nChunks :
        /\ \A p \in pending : p.n # n
        /\ \A r \in Range(startLog) : r.n # n}

\* C20: a chunk whose decode fails leaves the playback state as if it had not
\* arrived: when every chunk received so far has failed, nothing was scheduled,
\* the active set is empty, nextStartTime has its initial value and the
\* session is still connected.
FailedDecodeLeavesNoTrace ==
    (nChunks > 0 /\ Rejected = 1..nChunks) =>
        /\ startLog = <<>>
        /\ sources = {}
        /\ nextStartTime = 0
        /\ session = "open"

---------------------------------------------------------------------------
(* Properties of the order of dispatch (Spec).                             *)

\* Whether a is b with some of its elements left out.
RECURSIVE IsSubseq(_, _)
IsSubseq(a, b) ==
    IF a = <<>> THEN TRUE
    ELSE IF b = <<>> THEN FALSE
    ELSE IF a[1] = b[1] THEN IsSubseq(Tail(a), Tail(b))
    ELSE IsSubseq(a, Tail(b))

\* The transcription events aggregated so far, in the order of aggregation.
Aggregated ==
    [x \in DOMAIN transcriptLog |->
        [role |-> transcriptLog[x].role, text |-> transcriptLog[x].text,
         isFinal |-> transcriptLog[x].isFinal]]

\* The checkpoint ids of the markCheckpointComplete calls received, in order.
ReceivedIds ==
    LET marked == Marked(received) IN [x \in DOMAIN marked |-> marked[x].checkpointId]

\* C25: the transcription fragments are aggregated, and the checkpoint
\* completions applied, in the order in which their messages were received.
DispatchInReceiptOrder ==
    /\ IsSubseq(Aggregated, heard)
    /\ IsSubseq(LoggedIds, ReceivedIds)

---------------------------------------------------------------------------
(* Properties of the capture device (SpecRestart).                         *)

\* The number of services that hold a capture stream not yet released.
Holders == Cardinality({i \in DOMAIN services : services[i].stream = "live"})

\* C21: at any time at most one service of the client holds the capture device.
SingleDeviceHolder == Holders <= 1

=============================================================================
